---------------------------- MODULE Spec2Model ----------------------------
(***************************************************************************)
(* Model of the email-consolidation agent: the main script of graph.py    *)
(* (the scoped Playwright session around one graph.invoke), the eight     *)
(* nodes of nodes.py, the three conditional edges of graph.py and the     *)
(* helpers of utils.py.                                                   *)
(*                                                                         *)
(* The LangGraph state is the record `state`: a key is in DOMAIN state    *)
(* exactly when the Python dict holds it, so state.get(k) and state[k]    *)
(* are told apart.  A node returns a partial update that Merge folds into *)
(* the state (last value wins, url_history is reduced with operator.add). *)
(* The browser, the classifier (LLM) and the search provider are the       *)
(* environment: each call either returns one of a small set of values or  *)
(* raises, chosen with \E.                                                 *)
(***************************************************************************)
EXTENDS Integers, Sequences, FiniteSets, TLC

VARIABLES
    pc,         \* position of the main script / of the graph run
    input,      \* the run input handed to graph.invoke
    state,      \* OverallState: the accumulated LangGraph state
    context,    \* ContextSchema
    page_url,   \* the browser's page.url
    session,    \* the Playwright objects: "none", "open" or "closed"
    nav_request,\* the last navigation asked of the browser by a navigate node
    acquired,   \* how many times the session block was entered
    exc,        \* the exception propagating out of the current block
    provider,   \* the search provider object and its last search call
    calls,      \* per node: how many times it was entered
    last        \* what the last node did: exception caught inside it, page
                \* operations attempted, signals seen by the login verifier

vars == <<pc, input, state, context, page_url, session, nav_request, acquired, exc,
          provider, calls, last>>

-----------------------------------------------------------------------------
(* Bounds of the model *)

\* url_history entries recorded by the model; further appends are dropped
MaxHistory == 4
\* the per-node entry counters saturate here
MaxCalls == 4
\* web results in a search response of the model
MaxResults == 3

(* Program constants *)

\* `response.status_code != 200`
HttpOk == 200
\* `num_results=5`
DefaultNumResults == 5

\* `state["retry_count"] < 3` of both retry gates
RetryCeiling == 3

\* Python's None, for a value that is otherwise a plain string
None == "<None>"
\* Python's None, for a value that is otherwise a sequence of characters
NoneHref == <<None>>

-----------------------------------------------------------------------------
(* Strings whose characters matter are sequences of one-character strings *)

UpperCase == <<"A","B","C","D","E","F","G","H","I","J","K","L","M",
               "N","O","P","Q","R","S","T","U","V","W","X","Y","Z">>
LowerCase == <<"a","b","c","d","e","f","g","h","i","j","k","l","m",
               "n","o","p","q","r","s","t","u","v","w","x","y","z">>

\* str.lower() on one character
LowerChar(c) ==
    IF \E i \in 1..Len(UpperCase) : UpperCase[i] = c
    THEN LowerCase[CHOOSE i \in 1..Len(UpperCase) : UpperCase[i] = c]
    ELSE c

\* str.lower()
Lower(s) == [i \in 1..Len(s) |-> LowerChar(s[i])]

\* str.startswith(prefix)
StartsWith(s, prefix) ==
    /\ Len(prefix) <= Len(s)
    /\ \A i \in 1..Len(prefix) : s[i] = prefix[i]

HashMarker == <<"#">>
JsVoidMarker == <<"j","a","v","a","s","c","r","i","p","t",":","v","o","i","d","(","0",")">>
JsEmptyMarker == <<"j","a","v","a","s","c","r","i","p","t",":",";">>
HttpPrefix == <<"h","t","t","p",":","/","/">>
HttpsPrefix == <<"h","t","t","p","s",":","/","/">>
SlashPrefix == <<"/">>

\* the resolver without href.lower()
determine_navigation_method_case_sensitive(href) ==
    IF href = NoneHref \/ href = <<>> THEN "click"
    ELSE IF href \in {HashMarker, JsVoidMarker, JsEmptyMarker} THEN "click"
         ELSE IF \/ StartsWith(href, HttpPrefix)
                 \/ StartsWith(href, HttpsPrefix)
                 \/ StartsWith(href, SlashPrefix)
              THEN "url"
              ELSE "click"

\* a resolver that follows every href that is not empty or a marker
determine_navigation_method_any_href(href) ==
    IF href = NoneHref \/ href = <<>> THEN "click"
    ELSE IF Lower(href) \in {HashMarker, JsVoidMarker, JsEmptyMarker} THEN "click"
         ELSE "url"

\* utils.determine_navigation_method
determine_navigation_method(href) ==
    IF href = NoneHref \/ href = <<>> THEN "click"
    ELSE LET href_lower == Lower(href) IN
         IF href_lower \in {HashMarker, JsVoidMarker, JsEmptyMarker} THEN "click"
         ELSE IF \/ StartsWith(href_lower, HttpPrefix)
                 \/ StartsWith(href_lower, HttpsPrefix)
                 \/ StartsWith(href_lower, SlashPrefix)
              THEN "url"
              ELSE "click"

-----------------------------------------------------------------------------
(* The environment's values *)

\* what page.url can be once a page was loaded
Urls == {"https://site/", "https://site/login"}
\* page.url of a page just opened
BlankUrl == "about:blank"
\* `"/login" in new_url.lower()`, on the URLs of the model
ContainsLogin(url) == url \in {"https://site/login"}

\* the run inputs: {"website_name": ...} with initial_url absent, None, empty or a URL
Inputs ==
    {[website_name |-> "Agrosemens"]}
    \cup {[website_name |-> "Agrosemens", initial_url |-> u] :
              u \in {None, "", "https://site/"}}

\* hrefs the classifier can return for the login control (CSSSelector.href: str)
DebugHref == <<"h","t","t","p","s",":","/","/","w","w","w",".","a","g","r","o","s","e","m","e","n","s",".","c","o","m","/","m","o","n","-","c","o","m","p","t","e">>
Hrefs ==
    { <<>>, <<"#">>, <<"J","a","v","a","S","c","r","i","p","t",":",";">>,
      <<"H","T","T","P",":","/","/","x">>, <<"/","l","o","g","i","n">>,
      <<"l","o","g","i","n">>, DebugHref }

\* credentials of the context: os.getenv gives None when the variable is unset
Usernames == {None, "user@example.com"}
Passwords == {"", "secret"}

-----------------------------------------------------------------------------
(* The LangGraph state *)

\* state.get(key, default)
Get(s, key, default) == IF key \in DOMAIN s THEN s[key] ELSE default

\* a check that only tells None apart
Truthy_not_none(v) == v # None

\* Python truthiness of an Optional[str]
Truthy(v) == v # None /\ v # ""

\* a url_history channel without its reducer: the update replaces the list
AddHistory_last_value(old, new) == new

\* url_history: Annotated[list[str], operator.add]; the model records at most
\* MaxHistory entries
AddHistory(old, new) ==
    IF Len(old) + Len(new) <= MaxHistory THEN old \o new ELSE old

\* A node's partial update merged into the state, channel by channel
Merge(s, upd) ==
    [k \in DOMAIN s \cup DOMAIN upd |->
        IF k \notin DOMAIN upd THEN s[k]
        ELSE IF k = "url_history" THEN AddHistory(s[k], upd[k])
        ELSE upd[k]]

\* graph.invoke returns the channels of output_schema=OutputState that hold a value
Output(s) == [k \in DOMAIN s \cap {"output_status"} |-> s[k]]

Nodes == {"find_url", "find_login_button", "navigate_to_login", "analyze_page",
          "login", "find_change_email_access",
          "navigate_to_change_email_section", "check_if_email_change_reached"}

\* the node `n` is entered once more
Enter(n) == [calls EXCEPT ![n] = IF @ < MaxCalls THEN @ + 1 ELSE @]

-----------------------------------------------------------------------------
(* Conditional edges of graph.py *)

\* the START gate that also sends an empty initial_url to find_url
is_url_missing_falsy(s) == ~Truthy(Get(s, "initial_url", None))

is_url_missing(s) == Get(s, "initial_url", None) = None

\* the gate with an off-by-one ceiling
should_retry_look_for_login_off_by_one(s) ==
    ~s["is_login_page_reached"] /\ s["retry_count"] <= RetryCeiling

\* the gate with `or` in place of `and`
should_retry_look_for_login_or(s) ==
    ~s["is_login_page_reached"] \/ s["retry_count"] < RetryCeiling

should_retry_look_for_login(s) ==
    ~s["is_login_page_reached"] /\ s["retry_count"] < RetryCeiling

\* the change-email gate that ignores the reached flag
should_retry_change_email_section_count_only(s) ==
    Get(s, "retry_count", 0) < RetryCeiling

\* the change-email gate with an off-by-one ceiling
should_retry_change_email_section_off_by_one(s) ==
    /\ ~Get(s, "is_change_email_section_reached", FALSE)
    /\ Get(s, "retry_count", 0) <= RetryCeiling

should_retry_change_email_section(s) ==
    /\ ~Get(s, "is_change_email_section_reached", FALSE)
    /\ Get(s, "retry_count", 0) < RetryCeiling


-----------------------------------------------------------------------------
(* The main script: the scoped session of graph.py *)

(* search_engine.py *)

\* os.getenv("BRAVE_API_KEY"): None when the variable is unset
ApiKeys == {None, "BSA-key"}

\* the object BraveProvider(api_key) after __init__
BraveProvider(api_key) ==
    [kind |-> "brave",
     api_key |-> api_key,
     url |-> "https://api.search.brave.com/res/v1/web/search",
     headers |-> [k \in {"Accept", "Accept-Encoding", "X-Subscription-Token"} |->
                     CASE k = "Accept" -> "application/json"
                       [] k = "Accept-Encoding" -> "gzip"
                       [] OTHER -> api_key],
     call |-> [phase |-> "none"]]

\* the module's active provider
MockProvider == [kind |-> "mock"]

\* the URLs a search service ranks, best first
Ranking == <<"https://a/", "https://b/", "https://c/", "https://d/", "https://e/">>

\* one entry of the "results" list of a response
Item(url) == [url |-> url, title |-> "a result"]

\* the "results" lists of the model: the first n of the ranking, and one in another order
WebResultLists ==
    {[i \in 1..n |-> Item(Ranking[i])] : n \in 0..MaxResults}
    \cup {<<Item(Ranking[2]), Item(Ranking[1])>>}

\* response.json() of a search response, with or without the "web" and "results" keys
Bodies ==
    {[type |-> "search", web |-> [type |-> "search", results |-> r]] : r \in WebResultLists}
    \cup {[type |-> "search", web |-> [type |-> "search"]], [type |-> "search"]}

StatusCodes == {HttpOk, 204, 404, 500}

\* what requests.get returns: a JSON body, or a text that is not JSON
Responses ==
    [status_code : StatusCodes, body : Bodies]
    \cup [status_code : StatusCodes, text : {"<html>"}]

\* the num_results a caller passes
NumResults == (0..(MaxResults + 1)) \cup {DefaultNumResults}

\* seq[:n] for n >= 0
Slice(seq, n) == SubSeq(seq, 1, IF n < Len(seq) THEN n ELSE Len(seq))

\* BraveProvider.search slicing one result too many
search_result_one_more(response, num_results) ==
    IF response.status_code # HttpOk THEN <<>>
    ELSE LET web_results == Get(Get(response.body, "web", <<>>), "results", <<>>)
             taken == Slice(web_results, num_results + 1)
         IN [i \in 1..Len(taken) |-> taken[i].url]

\* what BraveProvider.search returns for a response it could read
search_result(response, num_results) ==
    IF response.status_code # HttpOk THEN <<>>
    ELSE LET results == response.body
             web_results == Get(Get(results, "web", <<>>), "results", <<>>)
             taken == Slice(web_results, num_results)
         IN [i \in 1..Len(taken) |-> taken[i].url]

-----------------------------------------------------------------------------
\* an analyze_page edge that skips login when the login page was reached
edge_analyze_page_skip_login(s) ==
    IF should_retry_look_for_login(s) THEN "find_login_button"
    ELSE "find_change_email_access"

\* add_conditional_edges("analyze_page", should_retry_look_for_login, ...)
edge_analyze_page(s) ==
    IF should_retry_look_for_login(s) THEN "find_login_button" ELSE "login"

\* a login edge that ends the run after a failed login
edge_login_stop_on_failure(s) ==
    IF s["login_success"] THEN "find_change_email_access" ELSE "END"

\* add_edge("login", "find_change_email_access"), whatever the state holds
edge_login(s) == "find_change_email_access"

\* a change-email edge whose retry goes back to login
edge_check_if_email_change_reached_relogin(s) ==
    IF should_retry_change_email_section(s) THEN "login" ELSE "END"

\* add_conditional_edges("check_if_email_change_reached",
\*                       should_retry_change_email_section, ...)
edge_check_if_email_change_reached(s) ==
    IF should_retry_change_email_section(s) THEN "find_change_email_access" ELSE "END"

NoException == "none"

Init ==
    /\ pc = "main"
    /\ input \in Inputs
    /\ state = [k \in DOMAIN input \cup {"url_history"} |->
                   IF k = "url_history" THEN <<>> ELSE input[k]]
    /\ \E d \in BOOLEAN, u \in Usernames, p \in Passwords :
           context = [debug_mode |-> d, llm_provider |-> "mistralai",
                      llm_model |-> "mistral-small-latest",
                      playwright |-> None, browser |-> None, page |-> None,
                      username |-> u, password |-> p]
    /\ page_url = None
    /\ session = [playwright |-> "none", browser |-> "none", page |-> "none"]
    /\ nav_request = [op |-> "none"]
    /\ acquired = 0
    /\ exc = NoException
    /\ provider = MockProvider
    /\ calls = [n \in Nodes |-> 0]
    /\ last = [node |-> "none", caught |-> "none", did |-> {}]

\* `with playwright_session(context):` up to the yield, then the entry of
\* graph.invoke and the conditional edge out of START
playwright_session_enter ==
    /\ pc = "main"
    /\ acquired' = acquired + 1
    /\ \E outcome \in {"launch_raises", "new_page_raises", "ok"} :
          \/ /\ outcome = "launch_raises"
             /\ context' = [context EXCEPT !.playwright = "p"]
             /\ session' = [session EXCEPT !.playwright = "closed"]
             /\ exc' = "BrowserError"
             /\ pc' = "done"
             /\ UNCHANGED page_url
          \/ /\ outcome = "new_page_raises"
             /\ context' = [context EXCEPT !.playwright = "p", !.browser = "browser"]
             /\ session' = [session EXCEPT !.playwright = "closed", !.browser = "open"]
             /\ exc' = "BrowserError"
             /\ pc' = "done"
             /\ UNCHANGED page_url
          \/ /\ outcome = "ok"
             /\ context' = [context EXCEPT !.playwright = "p", !.browser = "browser",
                                           !.page = "page"]
             /\ session' = [playwright |-> "open", browser |-> "open", page |-> "open"]
             /\ page_url' = BlankUrl
             /\ pc' = IF is_url_missing(state) THEN "find_url" ELSE "find_login_button"
             /\ UNCHANGED exc
    /\ UNCHANGED <<provider, input, state, nav_request, calls, last>>

\* the finally block of playwright_session, then the exit of sync_playwright
playwright_session_exit ==
    /\ pc \in {"END", "RAISED"}
    /\ \E outcome \in {"page_close_raises", "browser_close_raises", "ok"} :
          \/ /\ outcome = "page_close_raises"
             /\ session' = [session EXCEPT !.playwright = "closed"]
             /\ exc' = "BrowserError"
             /\ UNCHANGED context
          \/ /\ outcome = "browser_close_raises"
             /\ session' = [session EXCEPT !.playwright = "closed", !.page = "closed"]
             /\ exc' = "BrowserError"
             /\ UNCHANGED context
          \/ /\ outcome = "ok"
             /\ session' = [playwright |-> "closed", browser |-> "closed",
                            page |-> "closed"]
             /\ context' = [context EXCEPT !.playwright = None, !.browser = None,
                                           !.page = None]
             /\ UNCHANGED exc
    /\ pc' = "done"
    /\ UNCHANGED <<provider, input, state, page_url, nav_request, acquired, calls, last>>

-----------------------------------------------------------------------------
(* How a node ends *)

\* a failing node that is run again
Raise_retry(e) ==
    /\ pc' = pc
    /\ exc' = e
    /\ UNCHANGED state

\* an exception leaves the node and graph.invoke: no update is merged
Raise(e) ==
    /\ pc' = "RAISED"
    /\ exc' = e
    /\ UNCHANGED state

\* the node `n` caught the exception `e` ("none": nothing was caught) after
\* attempting the operations `ops`
Did(n, e, ops) == last' = [node |-> n, caught |-> e, did |-> ops]

\* the node returns `upd`; the edge out of it leads to `next`
Return(upd, next) ==
    /\ state' = Merge(state, upd)
    /\ pc' = next
    /\ UNCHANGED exc


-----------------------------------------------------------------------------
(* The nodes of nodes.py *)

\* MockProvider.search and BraveProvider.search take (query, num_results) only:
\* the call search(query, num_results=5, debug_mode=...) of find_url is a TypeError
SearchAcceptsDebugMode == FALSE

\* the hardcoded answers of debug mode
DebugHomepage == "https://www.agrosemens.com/"
DebugLoginSelector == ".login"
DebugLinkText == "Mes informations personnelles"

\* answers of the classifier outside debug mode
LoginSelectors == {"#login-btn"}
LinkTexts == {"Personal informations"}
UsernameSelector == "input[id='email']"
PasswordSelector == "input[id='passwd']"
SubmitSelector == "input[id='SubmitLogin'][value='Identifiez-vous']"

find_url ==
    /\ pc = "find_url"
    /\ calls' = Enter("find_url")
    /\ Did("find_url", "none", {})
    /\ IF ~SearchAcceptsDebugMode
       THEN Raise("TypeError")
       ELSE \E outcome \in {"classifier_raises", "ok"} :
               \/ /\ outcome = "classifier_raises"
                  /\ Raise("ClassifierError")
               \/ /\ outcome = "ok"
                  /\ \E url \in (IF context.debug_mode THEN {DebugHomepage} ELSE Urls) :
                        Return([initial_url |-> url, current_url |-> url],
                               "find_login_button")
    /\ UNCHANGED <<provider, input, context, page_url, session, nav_request, acquired>>

\* find_login_button's return without current_url
find_login_button_update_no_url(selector, href, url) ==
    [next_action_location |-> selector, login_href |-> href,
     navigation_method |-> determine_navigation_method(href)]

\* the update find_login_button returns
find_login_button_update(selector, href, url) ==
    [next_action_location |-> selector, login_href |-> href, current_url |-> url,
     navigation_method |-> determine_navigation_method(href)]

find_login_button ==
    /\ pc = "find_login_button"
    /\ calls' = Enter("find_login_button")
    /\ LET url == IF Truthy(Get(state, "current_url", None))
                  THEN state["current_url"] ELSE state["initial_url"]
       IN \E outcome \in {"goto_raises", "evaluate_raises", "classifier_raises", "ok"} :
             \/ /\ outcome = "goto_raises"
                /\ Raise("BrowserError")
                /\ Did("find_login_button", "none", {"goto"})
                /\ UNCHANGED page_url
             \* url is handed to page.goto as it is, empty or not
             \/ /\ outcome # "goto_raises"
                /\ \E landed \in Urls : page_url' = landed
                /\ Did("find_login_button", "none", {"goto", "evaluate"})
                /\ \/ /\ outcome = "evaluate_raises"
                      /\ Raise("BrowserError")
                   \/ /\ outcome = "classifier_raises"
                      /\ Raise("ClassifierError")
                   \/ /\ outcome = "ok"
                      /\ \E selector \in (IF context.debug_mode
                                          THEN {DebugLoginSelector} ELSE LoginSelectors),
                            href \in (IF context.debug_mode THEN {DebugHref} ELSE Hrefs) :
                            Return(find_login_button_update(selector, href, url),
                                   "navigate_to_login")
    /\ UNCHANGED <<provider, input, context, session, nav_request, acquired>>

\* a navigate node that keeps the browser's URL also when the navigation raised
url_after_navigation_no_fallback(url, raised, landed) == landed

\* new_url of the navigate nodes: page.url, or the previous URL in the except branch
url_after_navigation(url, raised, landed) == IF raised THEN url ELSE landed

navigate_to_login ==
    /\ pc = "navigate_to_login"
    /\ calls' = Enter("navigate_to_login")
    /\ LET method == state["navigation_method"]
           url == state["current_url"]
       IN /\ nav_request' =
                 IF method = "url"
                 THEN [op |-> "goto", target |-> state["login_href"],
                       base |-> IF StartsWith(state["login_href"], SlashPrefix)
                                THEN url ELSE None]
                 ELSE [op |-> "click", target |-> state["next_action_location"]]
          \* the goto / click / wait either raises (caught) or ends on some page
          /\ \E raised \in BOOLEAN, landed \in Urls :
                /\ page_url' = landed
                /\ Did("navigate_to_login", IF raised THEN "Exception" ELSE "none",
                       {nav_request'.op})
                /\ LET new_url == url_after_navigation(url, raised, landed)
                   IN Return([url_history |-> <<url>>, current_url |-> new_url],
                             "analyze_page")
    /\ UNCHANGED <<provider, input, context, session, acquired>>

analyze_page ==
    /\ pc = "analyze_page"
    /\ calls' = Enter("analyze_page")
    /\ Did("analyze_page", "none", {"evaluate"})
    /\ \E outcome \in {"evaluate_raises", "classifier_raises", "ok"} :
          \/ /\ outcome = "evaluate_raises"
             /\ Raise("BrowserError")
          \/ /\ outcome = "classifier_raises"
             /\ Raise("ClassifierError")
          \/ /\ outcome = "ok"
             /\ \E reached \in (IF context.debug_mode THEN {TRUE} ELSE BOOLEAN) :
                   LET upd == [is_login_page_reached |-> reached,
                               username_selector |-> UsernameSelector,
                               password_selector |-> PasswordSelector,
                               submit_selector |-> SubmitSelector,
                               retry_count |-> Get(state, "retry_count", 0) + 1]
                   IN Return(upd, edge_analyze_page(Merge(state, upd)))
    /\ UNCHANGED <<provider, input, context, page_url, session, nav_request, acquired>>


\* the decision with the first condition not gated by no_errors
login_verdict_ungated(url_changed, form_disappeared, no_errors, success_indicators) ==
    \/ url_changed
    \/ (form_disappeared /\ no_errors)
    \/ (success_indicators /\ no_errors /\ (url_changed \/ form_disappeared))

\* a decision in which the success cues are enough when no error is shown
login_verdict_cues_suffice(url_changed, form_disappeared, no_errors, success_indicators) ==
    \/ (url_changed /\ no_errors)
    \/ (form_disappeared /\ no_errors)
    \/ (success_indicators /\ no_errors)

\* the decision of utils.verify_login_success over its four signals
login_verdict(url_changed, form_disappeared, no_errors, success_indicators) ==
    \/ (url_changed /\ no_errors)
    \/ (form_disappeared /\ no_errors)
    \/ (success_indicators /\ no_errors /\ (url_changed \/ form_disappeared))

\* what the three page.evaluate calls of verify_login_success can give
PageSignals ==
    [raises : BOOLEAN, form_disappeared : BOOLEAN, no_errors : BOOLEAN,
     success_indicators : BOOLEAN]

\* a verifier that assumes success when the inspection raises
verify_login_success_fail_open(signals, initial_url, new_url) ==
    LET url_changed == new_url # initial_url /\ ~ContainsLogin(new_url) IN
    IF signals.raises THEN TRUE
    ELSE login_verdict(url_changed, signals.form_disappeared, signals.no_errors,
                       signals.success_indicators)

\* utils.verify_login_success
verify_login_success(signals, initial_url, new_url) ==
    LET url_changed == new_url # initial_url /\ ~ContainsLogin(new_url) IN
    IF signals.raises THEN FALSE
    ELSE login_verdict(url_changed, signals.form_disappeared, signals.no_errors,
                       signals.success_indicators)

\* an except branch of login that records no error
login_failure_update_silent(message) == [login_success |-> FALSE]

\* what the except branches of login return
login_failure_update(message) == [login_success |-> FALSE, error |-> message]

\* the page operations attempted when one of fill, fill, click, wait raises
LoginAttempts == {{"fill"}, {"fill", "click"}, {"fill", "click", "wait"}}

login ==
    /\ pc = "login"
    /\ calls' = Enter("login")
    /\ LET username == context.username
           password == context.password
       IN IF ~Truthy(username) \/ ~Truthy(password)
          THEN /\ LET upd == [login_success |-> FALSE,
                              error |-> "Missing username or password"]
                  IN Return(upd, edge_login(Merge(state, upd)))
               /\ Did("login", "none", {})
               /\ UNCHANGED page_url
          ELSE LET initial_url == page_url IN
               \E outcome \in {"TimeoutError", "Exception", "ok"}, landed \in Urls :
                  /\ page_url' = landed
                  \* fill, fill, click, wait: the first one that raises ends the try
                  /\ \/ /\ outcome = "TimeoutError"
                        /\ \E ops \in LoginAttempts : Did("login", "TimeoutError", ops)
                        /\ LET upd == login_failure_update(
                                          "Timeout during login process: str(e)")
                           IN Return(upd, edge_login(Merge(state, upd)))
                     \/ /\ outcome = "Exception"
                        /\ \E ops \in LoginAttempts : Did("login", "Exception", ops)
                        /\ LET upd == login_failure_update("str(e)")
                           IN Return(upd, edge_login(Merge(state, upd)))
                     \/ /\ outcome = "ok"
                        /\ \E signals \in PageSignals :
                              LET new_url == landed
                                  login_success ==
                                      verify_login_success(signals, initial_url, new_url)
                                  upd == [login_success |-> login_success,
                                          current_url |-> new_url,
                                          url_history |-> <<new_url>>]
                              IN /\ last' = [node |-> "login", caught |-> "none",
                                             did |-> {"fill", "click", "wait", "verify"},
                                             initial_url |-> initial_url,
                                             new_url |-> new_url,
                                             signals |-> signals]
                                 /\ Return(upd, edge_login(Merge(state, upd)))
    /\ UNCHANGED <<provider, input, context, session, nav_request, acquired>>

\* a find_change_email_access that starts the phase's attempts afresh
find_change_email_access_update_reset(text, url) ==
    [next_action_location |-> text, current_url |-> url, retry_count |-> 0]

\* the update find_change_email_access returns
find_change_email_access_update(text, url) ==
    [next_action_location |-> text, current_url |-> url]

find_change_email_access ==
    /\ pc = "find_change_email_access"
    /\ calls' = Enter("find_change_email_access")
    /\ Did("find_change_email_access", "none", {"evaluate"})
    /\ LET url == state["current_url"]
       IN \E outcome \in {"evaluate_raises", "classifier_raises", "ok"} :
             \/ /\ outcome = "evaluate_raises"
                /\ Raise("BrowserError")
             \/ /\ outcome = "classifier_raises"
                /\ Raise("ClassifierError")
             \/ /\ outcome = "ok"
                /\ \E text \in (IF context.debug_mode THEN {DebugLinkText} ELSE LinkTexts) :
                      Return(find_change_email_access_update(text, url),
                             "navigate_to_change_email_section")
    /\ UNCHANGED <<provider, input, context, page_url, session, nav_request, acquired>>

navigate_to_change_email_section ==
    /\ pc = "navigate_to_change_email_section"
    /\ calls' = Enter("navigate_to_change_email_section")
    /\ LET url == state["current_url"]
       IN /\ nav_request' = [op |-> "click", by |-> "text", target |-> state["next_action_location"]]
          /\ \E raised \in BOOLEAN, landed \in Urls :
                /\ page_url' = landed
                /\ Did("navigate_to_change_email_section",
                       IF raised THEN "Exception" ELSE "none", {"click"})
                /\ LET new_url == url_after_navigation(url, raised, landed)
                   IN Return([url_history |-> <<url>>, current_url |-> new_url],
                             "check_if_email_change_reached")
    /\ UNCHANGED <<provider, input, context, session, acquired>>

check_if_email_change_reached ==
    /\ pc = "check_if_email_change_reached"
    /\ calls' = Enter("check_if_email_change_reached")
    /\ Did("check_if_email_change_reached", "none", {"evaluate"})
    /\ \E outcome \in {"evaluate_raises", "classifier_raises", "ok"} :
          \/ /\ outcome = "evaluate_raises"
             /\ Raise("BrowserError")
          \/ /\ outcome = "classifier_raises"
             /\ Raise("ClassifierError")
          \/ /\ outcome = "ok"
             /\ \E reached \in (IF context.debug_mode THEN {TRUE} ELSE BOOLEAN),
                   next_action_location \in LinkTexts :
                   LET upd == [is_change_email_section_reached |-> reached,
                               next_action_location |->
                                   IF ~reached THEN next_action_location ELSE None,
                               current_url |-> page_url]
                   IN Return(upd, edge_check_if_email_change_reached(Merge(state, upd)))
    /\ UNCHANGED <<provider, input, context, page_url, session, nav_request, acquired>>

-----------------------------------------------------------------------------
(* The specifications *)

Next ==
    \/ playwright_session_enter
    \/ find_url
    \/ find_login_button
    \/ navigate_to_login
    \/ analyze_page
    \/ login
    \/ find_change_email_access
    \/ navigate_to_change_email_section
    \/ check_if_email_change_reached
    \/ playwright_session_exit

Spec == Init /\ [][Next]_vars

\* Every blocking call of a node returns or raises, and LangGraph then runs the
\* next node: a step that can be taken is eventually taken
FairSpec == Spec /\ WF_vars(Next)

-----------------------------------------------------------------------------
(* The search provider on its own *)

SearchInit ==
    /\ pc = "search_engine"
    /\ input = [website_name |-> "Agrosemens"]
    /\ state = [website_name |-> "Agrosemens", url_history |-> <<>>]
    /\ context = [debug_mode |-> FALSE, llm_provider |-> "mistralai",
                  llm_model |-> "mistral-small-latest",
                  playwright |-> None, browser |-> None, page |-> None,
                  username |-> None, password |-> ""]
    /\ page_url = None
    /\ session = [playwright |-> "none", browser |-> "none", page |-> "none"]
    /\ nav_request = [op |-> "none"]
    /\ acquired = 0
    /\ exc = NoException
    /\ provider = [kind |-> "none"]
    /\ calls = [n \in Nodes |-> 0]
    /\ last = [node |-> "none", caught |-> "none", did |-> {}]

\* search_engine = BraveProvider(BRAVE_API_KEY)
BraveProvider_init ==
    /\ provider.kind = "none"
    /\ \E api_key \in ApiKeys : provider' = BraveProvider(api_key)
    /\ UNCHANGED <<pc, input, state, context, page_url, session, nav_request, acquired,
                   exc, calls, last>>

\* search_engine.search(query, num_results)
BraveProvider_search ==
    /\ provider.kind = "brave"
    /\ \E query \in {"Agrosemens"}, num_results \in NumResults :
          LET request == [url |-> provider.url, headers |-> provider.headers,
                          params |-> [q |-> query]]
              sent == [query |-> query, num_results |-> num_results, request |-> request]
          IN \/ \* requests.get raises
                provider' = [provider EXCEPT !.call = sent @@ [phase |-> "raised"]]
             \/ \E response \in Responses :
                   provider' = [provider EXCEPT !.call =
                       IF response.status_code = HttpOk /\ "body" \notin DOMAIN response
                       THEN \* response.json() raises
                            sent @@ [phase |-> "raised", response |-> response]
                       ELSE sent @@ [phase |-> "returned", response |-> response,
                                     returned |-> search_result(response, num_results)]]
    /\ UNCHANGED <<pc, input, state, context, page_url, session, nav_request, acquired,
                   exc, calls, last>>

SearchNext ==
    \/ BraveProvider_init
    \/ BraveProvider_search

SearchSpec == SearchInit /\ [][SearchNext]_vars


-----------------------------------------------------------------------------
(* Observations used by the properties *)

\* retry_count as every reader sees it: state.get("retry_count", 0)
RetryCount == Get(state, "retry_count", 0)

\* the graph run is over: it reached END, or an exception left graph.invoke
\* (or the session never opened)
RunEnded == pc \in {"END", "RAISED", "done"}

-----------------------------------------------------------------------------
(* C1 *)

\* C1: whatever the classifier answers and whether the external calls return or
\* raise, the run of the state machine eventually ends: neither the login-arrival
\* loop nor the change-email-arrival loop iterates forever.
C1_RunEventuallyEnds == <>RunEnded


-----------------------------------------------------------------------------
(* C2 *)

\* C2: when the classifier never reports the login page as reached, login is
\* entered after exactly 3 find_login_button / navigate_to_login / analyze_page
\* cycles, with retry_count = 3 and 3 entries in url_history; there is never a
\* 4th analyze_page.
C2_ThreeCyclesThenLogin ==
    /\ calls["analyze_page"] <= RetryCeiling
    /\ (pc = "login" /\ ~state["is_login_page_reached"]) =>
          /\ state["retry_count"] = RetryCeiling
          /\ calls["find_login_button"] = RetryCeiling
          /\ calls["navigate_to_login"] = RetryCeiling
          /\ calls["analyze_page"] = RetryCeiling
          /\ Len(state["url_history"]) = RetryCeiling

C2_Witness ==
    /\ pc = "login"
    /\ ~state["is_login_page_reached"]
    /\ calls["analyze_page"] = RetryCeiling

-----------------------------------------------------------------------------
(* C3 *)

\* C3: with initial_url supplied, when the first analyze_page reports the login
\* page reached, the next node is login, entered with retry_count = 1 after one
\* find_login_button, one navigate_to_login and one analyze_page, find_url never
\* having run.
C3_FirstCheckReachedThenLogin ==
    [][(/\ pc = "analyze_page"
        /\ calls["analyze_page"] = 0
        /\ ~is_url_missing(input)
        /\ pc' # "RAISED"
        /\ state'["is_login_page_reached"])
       => (/\ pc' = "login"
           /\ state'["retry_count"] = 1
           /\ calls'["find_login_button"] = 1
           /\ calls'["navigate_to_login"] = 1
           /\ calls'["analyze_page"] = 1
           /\ calls'["find_url"] = 0
           /\ calls'["login"] = 0)]_vars

C3_Witness ==
    /\ pc = "login"
    /\ ~is_url_missing(input)
    /\ calls["analyze_page"] = 1
    /\ state["is_login_page_reached"]
    /\ state["retry_count"] = 1

-----------------------------------------------------------------------------
(* C4 *)

\* C4: every execution of a verification node that returns, analyze_page and
\* check_if_email_change_reached alike, increases retry_count by exactly one.
C4_EveryVerificationIncrements ==
    [][(pc \in {"analyze_page", "check_if_email_change_reached"} /\ pc' # "RAISED")
       => RetryCount' = RetryCount + 1]_vars

-----------------------------------------------------------------------------
(* C5 *)

\* C5: retry_count is between 0 and 3 in every reachable state, and no step
\* decreases it.
C5_RetryCountBoundedMonotone ==
    /\ [](RetryCount \in 0..RetryCeiling)
    /\ [][RetryCount' >= RetryCount]_vars

C5_Witness ==
    /\ pc = "check_if_email_change_reached"
    /\ RetryCount = RetryCeiling


-----------------------------------------------------------------------------
(* C6 *)

\* a retry ceiling was exhausted: retry_count reached 3 while the login page or
\* the change-email section was not reached
CeilingExhausted ==
    /\ RetryCount >= RetryCeiling
    /\ \/ ~Get(state, "is_login_page_reached", FALSE)
       \/ ~Get(state, "is_change_email_section_reached", FALSE)

\* C6: a run that ends after a phase exhausted the ceiling of 3 with its target
\* flag still false returns the status failed (and so never success).
C6_ExhaustedRunIsFailed ==
    (pc = "END" /\ CeilingExhausted) =>
        /\ "output_status" \in DOMAIN Output(state)
        /\ Output(state)["output_status"] = "failed"

-----------------------------------------------------------------------------
(* C7 *)

\* C7: whenever a run reaches END, the returned output record carries a status
\* that is one of searching, success and failed.
C7_OutputStatusAtEnd ==
    pc = "END" =>
        /\ "output_status" \in DOMAIN Output(state)
        /\ Output(state)["output_status"] \in {"searching", "success", "failed"}

-----------------------------------------------------------------------------
(* C8 *)

\* navigation nodes entered so far (each one entered also returns)
NavigationCount ==
    calls["navigate_to_login"] + calls["navigate_to_change_email_section"]

\* C8: in every reachable state url_history has as many entries as
\* navigate_to_login and navigate_to_change_email_section executions were
\* performed (stated for the counts the model records in full).
C8_HistoryLengthIsNavigationCount ==
    NavigationCount < MaxHistory => Len(state["url_history"]) = NavigationCount

-----------------------------------------------------------------------------
(* C9 *)

\* C9: once the session block is left, normally or by an exception of a phase,
\* of the set-up or of the close, the page and the browser were closed and the
\* context's playwright, browser and page are None; the session was acquired
\* exactly once.
C9_SessionReleasedOnEveryExit ==
    pc = "done" =>
        /\ acquired = 1
        /\ session.page # "open"
        /\ session.browser # "open"
        /\ context.playwright = None
        /\ context.browser = None
        /\ context.page = None

-----------------------------------------------------------------------------
(* C10 *)

\* C10: a browser-level error raised inside a node is contained by the node: it
\* never leaves the node to abort the run.
C10_BrowserErrorsContained ==
    pc = "RAISED" => exc # "BrowserError"


-----------------------------------------------------------------------------
(* C11 *)

NavigateNodes == {"navigate_to_login", "navigate_to_change_email_section"}

\* the verification node each navigate node leads to
VerifyAfter(n) ==
    IF n = "navigate_to_login" THEN "analyze_page" ELSE "check_if_email_change_reached"

-----------------------------------------------------------------------------
(* C12 *)

\* C12: when the browser raises during a navigate node, that node sets the
\* state's error to a description of the failure.
C12_NavigationFailureRecorded ==
    [][(pc \in NavigateNodes /\ last'.caught # "none")
       => (/\ "error" \in DOMAIN state'
           /\ state'["error"] # None)]_vars

-----------------------------------------------------------------------------
(* C13 *)

\* C13: when the username or the password is None or empty, login returns
\* login_success = False with error set, attempts no fill, click or
\* verification, and leaves current_url, url_history and the page unchanged.
C13_MissingCredentials ==
    [][(pc = "login" /\ (context.username \in {None, ""} \/ context.password \in {None, ""}))
       => (/\ state'["login_success"] = FALSE
           /\ "error" \in DOMAIN state'
           /\ state'["error"] # None
           /\ last'.did = {}
           /\ state'["current_url"] = state["current_url"]
           /\ state'["url_history"] = state["url_history"]
           /\ page_url' = page_url
           /\ pc' = "find_change_email_access")]_vars

C13_Witness ==
    /\ last.node = "login"
    /\ context.username # None
    /\ context.password = ""
    /\ state["login_success"] = FALSE
    /\ "error" \in DOMAIN state


-----------------------------------------------------------------------------
(* C14 *)

\* the combination of the four signals the specification gives
VerdictFormula(urlChanged, formGone, noErrorsShown, successCuesPresent) ==
    \/ (urlChanged /\ noErrorsShown)
    \/ (formGone /\ noErrorsShown)
    \/ (successCuesPresent /\ noErrorsShown /\ (urlChanged \/ formGone))

\* login has just run its verifier, whose inspection of the page did not raise
LoginVerified == last.node = "login" /\ "signals" \in DOMAIN last

\* the url_changed signal of the verification that just ran
UrlChanged == last.new_url # last.initial_url /\ ~ContainsLogin(last.new_url)

\* C14: for each of the 16 combinations of the four signals the login verdict
\* is (urlChanged /\ noErrorsShown) \/ (formGone /\ noErrorsShown) \/
\* (successCuesPresent /\ noErrorsShown /\ (urlChanged \/ formGone)), and it is
\* false whenever noErrorsShown is false.
C14_VerdictMatchesFormula ==
    /\ \A uc, fg, ne, sc \in BOOLEAN :
          /\ login_verdict(uc, fg, ne, sc) = VerdictFormula(uc, fg, ne, sc)
          /\ ~ne => ~login_verdict(uc, fg, ne, sc)
    /\ (LoginVerified /\ ~last.signals.raises) =>
          /\ state["login_success"] =
                VerdictFormula(UrlChanged, last.signals.form_disappeared,
                               last.signals.no_errors, last.signals.success_indicators)
          /\ ~last.signals.no_errors => ~state["login_success"]

\* the case urlChanged, not formGone, errors shown, success cues present
C14_Witness ==
    /\ LoginVerified
    /\ ~last.signals.raises
    /\ UrlChanged
    /\ ~last.signals.form_disappeared
    /\ ~last.signals.no_errors
    /\ last.signals.success_indicators
    /\ state["login_success"] = FALSE

-----------------------------------------------------------------------------
(* C15 *)

\* C15: when the inspection of the page raises during login verification, the
\* verifier returns False, no exception leaves login, and login records
\* login_success = False.
C15_VerifierFailsClosed ==
    (LoginVerified /\ last.signals.raises) =>
        /\ state["login_success"] = FALSE
        /\ exc = NoException
        /\ pc = "find_change_email_access"

\* the inspection raised although every signal it could read was positive
C15_Witness ==
    /\ LoginVerified
    /\ last.signals.raises
    /\ UrlChanged
    /\ last.signals.form_disappeared
    /\ last.signals.no_errors
    /\ state["login_success"] = FALSE

-----------------------------------------------------------------------------
(* C16 *)

\* hrefs the resolver is asked about: those of the classifier, None and the markers
ResolverInputs ==
    Hrefs \cup {NoneHref, HashMarker, JsVoidMarker, JsEmptyMarker,
                <<"J","A","V","A","S","C","R","I","P","T",":","V","O","I","D","(","0",")">>,
                <<"H","t","t","p","s",":","/","/","x">>, <<"/">>, <<" ">>,
                <<"m","a","i","l","t","o",":","x">>}

\* the rule table read literally: the markers compared case-insensitively, the
\* prefixes compared as written
RuleTableLiteral(href) ==
    IF href = NoneHref \/ href = <<>> THEN "click"
    ELSE IF Lower(href) \in {HashMarker, JsVoidMarker, JsEmptyMarker} THEN "click"
    ELSE IF \E p \in {HttpPrefix, HttpsPrefix, SlashPrefix} : StartsWith(href, p)
         THEN "url"
    ELSE "click"

\* the rule table with the prefixes compared case-insensitively too
RuleTable(href) ==
    IF href = NoneHref \/ href = <<>> THEN "click"
    ELSE LET lowered == Lower(href) IN
         IF lowered \in {HashMarker, JsVoidMarker, JsEmptyMarker} THEN "click"
         ELSE IF \E p \in {HttpPrefix, HttpsPrefix, SlashPrefix} : StartsWith(lowered, p)
              THEN "url"
         ELSE "click"

\* on every input the resolver answers "url" or "click", as the rule table says
ResolverTotalAndTabular ==
    \A href \in ResolverInputs :
        /\ determine_navigation_method(href) \in {"url", "click"}
        /\ determine_navigation_method(href) = RuleTable(href)

\* C16 (as stated): the navigation method stored with a login href is the one
\* the rule table gives, the href starting with 'http://', 'https://' or '/'
\* exactly as written.
C16_ResolverFollowsLiteralTable ==
    "login_href" \in DOMAIN state =>
        state["navigation_method"] = RuleTableLiteral(state["login_href"])

\* C16 (amended): the resolver is total and follows the rule table in order,
\* the prefixes 'http://', 'https://' and '/' being matched case-insensitively
\* like the markers.
C16_ResolverFollowsTable ==
    /\ ResolverTotalAndTabular
    /\ "login_href" \in DOMAIN state =>
          state["navigation_method"] = RuleTable(state["login_href"])

\* an upper-case absolute URL is followed as a URL
C16_Witness ==
    /\ "login_href" \in DOMAIN state
    /\ state["login_href"] = <<"H","T","T","P",":","/","/","x">>
    /\ state["navigation_method"] = "url"

-----------------------------------------------------------------------------
(* C17 *)

\* the attempts the gates are asked about
GateAttempts == 0..(RetryCeiling + 2)

\* C17: both retry gates retry exactly when the phase's reached flag is false
\* and retry_count < 3, and the edge taken out of each verification node is the
\* one the gate gives.
C17_GatesRetryIffNotReachedBelowCeiling ==
    /\ [](\A reached \in BOOLEAN, n \in GateAttempts :
            /\ should_retry_look_for_login(
                   [is_login_page_reached |-> reached, retry_count |-> n])
               = (~reached /\ n < 3)
            /\ should_retry_change_email_section(
                   [is_change_email_section_reached |-> reached, retry_count |-> n])
               = (~reached /\ n < 3))
    /\ [][(pc = "analyze_page" /\ pc' # "RAISED")
          => ((pc' = "find_login_button")
              = (~state'["is_login_page_reached"] /\ state'["retry_count"] < 3))]_vars
    /\ [][(pc = "check_if_email_change_reached" /\ pc' # "RAISED")
          => ((pc' = "find_change_email_access")
              = (~state'["is_change_email_section_reached"]
                 /\ state'["retry_count"] < 3))]_vars

\* the change-email gate stops although the section was not reached
C17_Witness ==
    /\ pc = "END"
    /\ ~state["is_change_email_section_reached"]
    /\ state["retry_count"] = 3


-----------------------------------------------------------------------------
(* C18 *)

\* C18: from START the run enters find_url exactly when the input has no
\* initial_url (absent or None) and otherwise enters find_login_button
\* directly; find_url is entered at most once per run.
C18_DiscoverIffUrlUnknown ==
    /\ [][(pc = "main" /\ pc' \in Nodes)
          => (/\ (pc' = "find_url") = (Get(input, "initial_url", None) = None)
              /\ (pc' # "find_url") => (pc' = "find_login_button"))]_vars
    /\ [](calls["find_url"] <= 1)
    /\ []((calls["find_url"] = 1) => (Get(input, "initial_url", None) = None))
    /\ []((pc = "find_url")
          => (Get(input, "initial_url", None) = None /\ calls["find_url"] = 0))

\* a run given a URL is looking for the login control and never discovered
C18_Witness ==
    /\ pc = "navigate_to_login"
    /\ input = [website_name |-> "Agrosemens", initial_url |-> "https://site/"]
    /\ calls["find_url"] = 0
    /\ calls["find_login_button"] = 1

-----------------------------------------------------------------------------
(* C19 *)

\* the node the START edge selects
FirstStep == IF is_url_missing(input) THEN "find_url" ELSE "find_login_button"

\* the first node has returned: the run is at, or has been in, another node
FirstStepCompleted ==
    /\ calls[FirstStep] >= 1
    /\ \/ pc \in Nodes \ {FirstStep}
       \/ \E n \in Nodes \ {FirstStep} : calls[n] >= 1

\* C19: once the first step of a run has completed, current_url is present
\* and is a non-empty string, whatever the run input.
C19_CurrentUrlNonEmpty ==
    FirstStepCompleted =>
        /\ "current_url" \in DOMAIN state
        /\ state["current_url"] \notin {None, ""}


-----------------------------------------------------------------------------
(* C20 *)

\* the web results of the response of the last search
WebResultsOf(response) ==
    IF "web" \in DOMAIN response.body /\ "results" \in DOMAIN response.body.web
    THEN response.body.web.results ELSE <<>>

\* C20: BraveProvider.search returns, in the provider's order, the URLs of the
\* first min(num_results, n) of the n web results of a status-200 response and
\* the empty list for a response of any other status; every request carries
\* the configured API key in the X-Subscription-Token header.
C20_BraveSearchResults ==
    /\ (provider.kind = "brave" /\ provider.call.phase # "none") =>
          provider.call.request.headers["X-Subscription-Token"] = provider.api_key
    /\ (provider.kind = "brave" /\ provider.call.phase = "returned") =>
          LET response == provider.call.response
              returned == provider.call.returned
          IN IF response.status_code = 200
             THEN LET n == Len(WebResultsOf(response))
                      k == IF provider.call.num_results < n
                           THEN provider.call.num_results ELSE n
                  IN /\ Len(returned) = k
                     /\ \A i \in 1..k : returned[i] = WebResultsOf(response)[i].url
             ELSE returned = <<>>

\* two results asked of a response that has three: the first two URLs, in order
C20_Witness ==
    /\ provider.kind = "brave"
    /\ provider.api_key = "BSA-key"
    /\ provider.call.phase = "returned"
    /\ provider.call.response.status_code = 200
    /\ provider.call.num_results = 2
    /\ Len(WebResultsOf(provider.call.response)) = 3
    /\ provider.call.returned = <<"https://a/", "https://b/">>


-----------------------------------------------------------------------------
(* C21 *)

\* s is an initial segment of t
IsPrefix(s, t) == Len(s) <= Len(t) /\ SubSeq(t, 1, Len(s)) = s

\* C21: url_history is append-only: the history before any step is a prefix
\* of the history after it; each navigate node appends exactly one entry, the
\* value current_url had before the attempt, whether the attempt raised or not.
C21_HistoryAppendOnly ==
    /\ [][IsPrefix(state["url_history"], state'["url_history"])]_vars
    /\ [][(pc \in NavigateNodes /\ Len(state["url_history"]) < MaxHistory)
          => (/\ last'.node = pc
              /\ state'["url_history"] =
                    Append(state["url_history"], state["current_url"]))]_vars

\* a failed navigation after an earlier one: two entries, the last one recorded
\* although the attempt raised
C21_Witness ==
    /\ last.node = "navigate_to_login"
    /\ last.caught = "Exception"
    /\ Len(state["url_history"]) = 2
    /\ state["url_history"][2] = state["current_url"]
    /\ state["url_history"][1] # state["url_history"][2]

-----------------------------------------------------------------------------
(* C22 *)

LoginArrivalNodes == {"find_login_button", "navigate_to_login", "analyze_page"}

\* C22: login runs at most once per run: once it has run, no step leads back
\* to login or to the login-arrival loop, whatever login_success is.
C22_LoginAtMostOnce ==
    /\ [](calls["login"] <= 1)
    /\ [][(pc = "login" \/ calls["login"] >= 1)
          => (pc' \notin LoginArrivalNodes \cup {"login"})]_vars

\* the change-email loop retries after a failed login without going back to it
C22_Witness ==
    /\ pc = "find_change_email_access"
    /\ calls["find_change_email_access"] = 2
    /\ calls["login"] = 1
    /\ state["login_success"] = FALSE

-----------------------------------------------------------------------------
(* C23 *)

\* C23: when a fill or the submit click raises in login, login returns
\* login_success = False and an error describing the exception, leaves
\* current_url and url_history as they were, does not call the verifier and
\* does not try the interaction again.
C23_LoginInteractionFailure ==
    [][(pc = "login" /\ last'.caught \in {"TimeoutError", "Exception"})
       => (/\ state'["login_success"] = FALSE
           /\ "error" \in DOMAIN state'
           /\ state'["error"] \in {"str(e)", "Timeout during login process: str(e)"}
           /\ state'["current_url"] = state["current_url"]
           /\ state'["url_history"] = state["url_history"]
           /\ "verify" \notin last'.did
           /\ calls'["login"] = 1
           /\ pc' # "login"
           /\ exc' = NoException)]_vars

\* the submit click raised after the browser had left the recorded page
C23_Witness ==
    /\ last.node = "login"
    /\ last.caught = "Exception"
    /\ last.did = {"fill", "click"}
    /\ state["login_success"] = FALSE
    /\ state["error"] = "str(e)"
    /\ page_url # state["current_url"]

-----------------------------------------------------------------------------
(* C24 *)

\* C24: a classifier failure in a locate or verify node is not caught by the
\* node: the run aborts, no node runs afterwards and the classifier call is not
\* tried again.
C24_ClassifierFailureAborts ==
    /\ [][(pc \in Nodes /\ exc' = "ClassifierError")
          => (/\ pc' = "RAISED"
              /\ state' = state)]_vars
    /\ [][(exc = "ClassifierError")
          => (/\ calls' = calls
              /\ state' = state
              /\ pc' = "done")]_vars

\* the classifier failed in the last verification of the run
C24_Witness ==
    /\ pc = "RAISED"
    /\ exc = "ClassifierError"
    /\ last.node = "check_if_email_change_reached"
    /\ calls["check_if_email_change_reached"] = 1


-----------------------------------------------------------------------------
(* C25 *)

\* C25: each navigate node performs the navigation the stored navigation
\* method names: a goto of the href when it is "url", a click of the pending
\* element when it is "click".
C25_NavigationFollowsMethod ==
    [][(pc \in NavigateNodes)
       => (nav_request'.op =
              IF state["navigation_method"] = "url" THEN "goto" ELSE "click")]_vars

-----------------------------------------------------------------------------
(* C26 *)

ChangeEmailNodes ==
    {"find_change_email_access", "navigate_to_change_email_section",
     "check_if_email_change_reached"}

\* C26: login, find_change_email_access and navigate_to_change_email_section
\* leave retry_count as it is, so the first check_if_email_change_reached
\* sees the count the login-arrival phase ended with.
C26_RetryCountCarriedOver ==
    /\ [][(pc \in {"login", "find_change_email_access",
                   "navigate_to_change_email_section"})
          => (/\ "retry_count" \in DOMAIN state
              /\ "retry_count" \in DOMAIN state'
              /\ state'["retry_count"] = state["retry_count"])]_vars
    /\ []((pc = "check_if_email_change_reached"
           /\ calls["check_if_email_change_reached"] = 0)
          => (state["retry_count"] = calls["analyze_page"]))

\* the change-email phase is about to be verified for the first time with the
\* two attempts of the login-arrival phase already counted
C26_Witness ==
    /\ pc = "check_if_email_change_reached"
    /\ calls["check_if_email_change_reached"] = 0
    /\ calls["analyze_page"] = 2
    /\ state["retry_count"] = 2

-----------------------------------------------------------------------------
(* C27 *)

\* C27: when the login-arrival phase ended with retry_count = 3, the
\* change-email phase runs one find / navigate / check cycle and then ends,
\* also when the section was not reached.
C27_SingleChangeEmailAttempt ==
    /\ [][(pc = "check_if_email_change_reached" /\ calls["analyze_page"] = 3
           /\ pc' # "RAISED")
          => (state["retry_count"] = 3 /\ pc' = "END")]_vars
    /\ []((calls["analyze_page"] = 3)
          => (\A n \in ChangeEmailNodes : calls[n] <= 1))
    /\ []((pc = "END" /\ calls["analyze_page"] = 3)
          => (\A n \in ChangeEmailNodes : calls[n] = 1))

\* the run ended after one change-email cycle that did not reach the section
C27_Witness ==
    /\ pc = "END"
    /\ calls["analyze_page"] = 3
    /\ calls["check_if_email_change_reached"] = 1
    /\ calls["find_change_email_access"] = 1
    /\ ~state["is_change_email_section_reached"]

-----------------------------------------------------------------------------
(* C28 *)

\* C28: whenever login returns, the next node is find_change_email_access,
\* whatever login_success is: after missing credentials, after an exception
\* in the interaction and after a negative verdict.
C28_ChangeEmailFollowsLogin ==
    [][(pc = "login")
       => (/\ pc' = "find_change_email_access"
           /\ exc' = NoException
           /\ "login_success" \in DOMAIN state')]_vars

\* the verifier said no and the change-email phase is entered all the same
C28_Witness ==
    /\ pc = "find_change_email_access"
    /\ LoginVerified
    /\ ~last.signals.raises
    /\ ~last.signals.no_errors
    /\ state["login_success"] = FALSE

-----------------------------------------------------------------------------
(* C29 *)

\* C29: the phases are ordered: login does not run before an analyze_page has
\* completed, no change-email node runs before login has returned, and no
\* login-arrival node runs after login.
C29_PhasesOrdered ==
    /\ []((pc = "login" \/ calls["login"] >= 1) => (calls["analyze_page"] >= 1))
    /\ []((pc \in ChangeEmailNodes \/ \E n \in ChangeEmailNodes : calls[n] >= 1)
          => (calls["login"] >= 1 /\ pc # "login"))
    /\ []((calls["login"] >= 1) => (pc \notin LoginArrivalNodes))
    /\ [][(calls["login"] >= 1)
          => (\A n \in LoginArrivalNodes : calls'[n] = calls[n])]_vars

\* a complete run: two arrival attempts, one login, two change-email cycles
C29_Witness ==
    /\ pc = "END"
    /\ calls["analyze_page"] = 2
    /\ calls["login"] = 1
    /\ calls["check_if_email_change_reached"] = 2

-----------------------------------------------------------------------------
(* C30 *)

\* the verdict is no_errors /\ (url_changed \/ form_disappeared) whatever the
\* success cues are
VerdictIgnoresCues ==
    \A uc, fg, ne \in BOOLEAN :
        /\ login_verdict(uc, fg, ne, TRUE) = login_verdict(uc, fg, ne, FALSE)
        /\ \A sc \in BOOLEAN : login_verdict(uc, fg, ne, sc) = (ne /\ (uc \/ fg))

\* C30: the login verdict does not depend on the success cues: two signal
\* tuples that differ only in them give the same verdict, which is
\* noErrorsShown /\ (urlChanged \/ formGone).
C30_VerdictIndependentOfCues ==
    /\ VerdictIgnoresCues
    /\ (LoginVerified /\ ~last.signals.raises) =>
          state["login_success"] =
             (last.signals.no_errors /\ (UrlChanged \/ last.signals.form_disappeared))

\* success cues and no error shown, but neither the URL changed nor the form
\* went away: the login counts as failed
C30_Witness ==
    /\ LoginVerified
    /\ ~last.signals.raises
    /\ last.signals.success_indicators
    /\ last.signals.no_errors
    /\ ~UrlChanged
    /\ ~last.signals.form_disappeared
    /\ state["login_success"] = FALSE


-----------------------------------------------------------------------------
(* C31 *)

\* C31: whenever navigate_to_login runs with navigation_method = "url", the
\* stored login_href is present, not empty, starts (case-insensitively) with
\* 'http://', 'https://' or '/', and is the href the method was resolved from
\* in the find_login_button that ran immediately before; the goto asked of the
\* browser is for that href.
C31_FollowedHrefIsResolvedHref ==
    /\ []((pc = "navigate_to_login")
          => (/\ last.node = "find_login_button"
              /\ "login_href" \in DOMAIN state
              /\ state["navigation_method"] =
                    determine_navigation_method(state["login_href"])))
    /\ []((pc = "navigate_to_login" /\ state["navigation_method"] = "url")
          => (/\ state["login_href"] \notin {NoneHref, <<>>}
              /\ \E p \in {HttpPrefix, HttpsPrefix, SlashPrefix} :
                    StartsWith(Lower(state["login_href"]), p)))
    /\ [][(pc = "find_login_button" /\ pc' = "navigate_to_login")
          => (\E href \in Hrefs :
                 /\ state'["login_href"] = href
                 /\ state'["navigation_method"] = determine_navigation_method(href))]_vars
    /\ [][(pc = "navigate_to_login" /\ state["navigation_method"] = "url")
          => (nav_request'.op = "goto" /\ nav_request'.target = state["login_href"])]_vars

\* the second attempt of the login-arrival loop follows a relative href found
\* in that attempt
C31_Witness ==
    /\ pc = "navigate_to_login"
    /\ calls["find_login_button"] = 2
    /\ state["navigation_method"] = "url"
    /\ state["login_href"] = <<"/","l","o","g","i","n">>
    /\ state["url_history"] # <<>>


=============================================================================
